---------------------------- MODULE Spec2Model ----------------------------
(* Model of the import sorter: the classifier and record constructors of   *)
(* import_parser.py, the four sorting strategies of sorting_strategies.py, *)
(* the configuration validators of config.py and the driver of main.py.    *)
(* Text is kept as TLA+ strings and handled character by character, so     *)
(* that prefix tests and lexicographic comparison are computed as Python   *)
(* computes them.                                                          *)
EXTENDS Integers, Sequences, FiniteSets, TLC

VARIABLES
    fs,              \* file path -> list of lines on disk (each ends in "\n")
    fs0,             \* the content of every file when the program started
    perm,            \* file path -> "rw" | "r" | "none" (what open() allows)
    config,          \* Config: file, directory, sorting_type, dry_run
    pc,              \* position of the program
    todo,            \* files os.walk has still to yield
    log,             \* records written to the logger, in order
    exit_code,       \* process exit status
    status,          \* file path -> outcome of _process_single_file
    parsed_imports,  \* the list Parser produced last
    sorted_imports   \* the list Sorter produced last

vars == <<fs, fs0, perm, config, pc, todo, log, exit_code, status,
          parsed_imports, sorted_imports>>

-----------------------------------------------------------------------------
(* Bounds *)

MaxRecords == 3
MaxLines == 3
MaxDirLines == 1

-----------------------------------------------------------------------------
(* Python str operations *)

\* The characters that occur in the modelled texts, in code point order.
CodePoints == "\n \"#(.0123456789=_abcdefghijklmnopqrstuvwxyz"

ord(c) == CHOOSE i \in 1..Len(CodePoints) : SubSeq(CodePoints, i, i) = c

startswith(s, prefix) ==
    /\ Len(prefix) <= Len(s)
    /\ SubSeq(s, 1, Len(prefix)) = prefix

endswith(s, suffix) ==
    /\ Len(suffix) <= Len(s)
    /\ SubSeq(s, Len(s) - Len(suffix) + 1, Len(s)) = suffix

\* s.find(sub) + 1: the first position sub occurs at, 0 when it does not.
find(s, sub) ==
    LET hits == {i \in 1..(Len(s) - Len(sub) + 1) :
                    SubSeq(s, i, i + Len(sub) - 1) = sub}
    IN  IF hits = {} THEN 0 ELSE CHOOSE i \in hits : \A j \in hits : i <= j

contains(s, sub) == find(s, sub) # 0

IsSpace(c) == c \in {" ", "\n"}

RECURSIVE lstrip(_)
lstrip(s) ==
    IF s # "" /\ IsSpace(Head(s)) THEN lstrip(Tail(s)) ELSE s

RECURSIVE rstrip(_)
rstrip(s) ==
    IF s # "" /\ IsSpace(SubSeq(s, Len(s), Len(s)))
    THEN rstrip(SubSeq(s, 1, Len(s) - 1))
    ELSE s

strip(s) == rstrip(lstrip(s))

\* a < b on str: the first differing character decides, a proper prefix is less.
RECURSIVE StrLess(_, _)
StrLess(a, b) ==
    IF b = "" THEN FALSE
    ELSE IF a = "" THEN TRUE
    ELSE IF Head(a) = Head(b) THEN StrLess(Tail(a), Tail(b))
    ELSE ord(Head(a)) < ord(Head(b))

StrLeq(a, b) == a = b \/ StrLess(a, b)

-----------------------------------------------------------------------------
(* import_parser.py *)

ImportType == {"SYSTEM", "THIRD_PARTY", "LOCAL"}

standard_libs == {"os", "re", "sys", "math", "json", "datetime"}

classify_import_type(module) ==
    IF \E lib \in standard_libs : startswith(module, lib) THEN "SYSTEM"
    ELSE IF ~contains(module, ".") \/ startswith(module, ".") THEN "LOCAL"
    ELSE "THIRD_PARTY"

create_import_statement(module) ==
    [original_line    |-> "import " \o module,
     import_type      |-> classify_import_type(module),
     module           |-> module,
     specific_imports |-> <<>>,
     is_from_import   |-> FALSE]

create_from_import_statement(module, specific_import) ==
    [original_line    |-> "from " \o module \o " import " \o specific_import,
     import_type      |-> classify_import_type(module),
     module           |-> module,
     specific_imports |-> <<specific_import>>,
     is_from_import   |-> TRUE]

(* ast.parse, restricted to sources made of one-line statements: plain      *)
(* imports, from-imports, assignments, blank lines and triple-quoted        *)
(* strings whose delimiters stand on lines of their own. Any other line,    *)
(* and a string left open at the end, is a SyntaxError.                     *)

TripleQuote == "\"\"\""

SyntaxError == [ok |-> FALSE, body |-> <<>>]

RECURSIVE CountDots(_)
CountDots(s) ==
    IF s # "" /\ Head(s) = "." THEN 1 + CountDots(Tail(s)) ELSE 0

\* The ast.Import node of the statement "import <name>".
ImportNode(s, lineno) ==
    [type |-> "Import", name |-> SubSeq(s, 8, Len(s)), module |-> <<>>,
     level |-> 0, lineno |-> lineno]

\* The ast.ImportFrom node of "from <dots><module> import <name>": the dots
\* are counted in level and module holds what follows them, None (here the
\* empty tuple) when nothing does.
ImportFromNode(s, lineno) ==
    LET rest   == SubSeq(s, 6, Len(s))
        k      == find(rest, " import ")
        target == SubSeq(rest, 1, k - 1)
        level  == CountDots(target)
        mod    == SubSeq(target, level + 1, Len(target))
    IN  [type |-> "ImportFrom", name |-> SubSeq(rest, k + 8, Len(rest)),
         module |-> IF mod = "" THEN <<>> ELSE <<mod>>,
         level |-> level, lineno |-> lineno]

OtherNode(lineno) ==
    [type |-> "Assign", name |-> "", module |-> <<>>, level |-> 0,
     lineno |-> lineno]

RECURSIVE ParseFrom(_, _, _, _)
ParseFrom(lines, i, in_string, body) ==
    IF i > Len(lines)
    THEN IF in_string THEN SyntaxError ELSE [ok |-> TRUE, body |-> body]
    ELSE LET s == strip(lines[i]) IN
         IF in_string
         THEN ParseFrom(lines, i + 1, s # TripleQuote, body)
         ELSE IF s = TripleQuote THEN ParseFrom(lines, i + 1, TRUE, body)
         ELSE IF s = "" THEN ParseFrom(lines, i + 1, FALSE, body)
         ELSE IF startswith(lines[i], " ") THEN SyntaxError
         ELSE IF startswith(s, "import ")
         THEN ParseFrom(lines, i + 1, FALSE, Append(body, ImportNode(s, i)))
         ELSE IF startswith(s, "from ") /\ contains(s, " import ")
         THEN ParseFrom(lines, i + 1, FALSE, Append(body, ImportFromNode(s, i)))
         ELSE IF contains(s, " = ")
         THEN ParseFrom(lines, i + 1, FALSE, Append(body, OtherNode(i)))
         ELSE SyntaxError

ast_parse(lines) == ParseFrom(lines, 1, FALSE, <<>>)

\* node.module or ""
module_or_empty(node) == IF node.module = <<>> THEN "" ELSE node.module[1]

\* The body of the loop over ast.walk(tree): one record per import node, in
\* the order of the walk, which for a flat module is the source order.
RECURSIVE walk_imports(_)
walk_imports(body) ==
    IF body = <<>> THEN <<>>
    ELSE LET node == Head(body) IN
         (IF node.type = "Import"
          THEN <<create_import_statement(node.name)>>
          ELSE IF node.type = "ImportFrom"
          THEN <<create_from_import_statement(module_or_empty(node), node.name)>>
          ELSE <<>>)
         \o walk_imports(Tail(body))

\* Parser.parse_imports: [ok |-> FALSE] stands for the ValueError it raises
\* when the file cannot be opened or does not parse.
parse_imports(readable, lines) ==
    LET tree == ast_parse(lines) IN
    IF ~readable \/ ~tree.ok
    THEN [ok |-> FALSE, imports |-> <<>>]
    ELSE [ok |-> TRUE, imports |-> walk_imports(tree.body)]

-----------------------------------------------------------------------------
(* sorting_strategies.py *)

SortingType == {"FROM_FIRST", "IMPORT_FIRST", "ALPHABETICAL", "STRUCTURAL"}

\* Python compares the key tuples (primary, text) item by item.
KeyLess(k1, k2) ==
    \/ k1[1] < k2[1]
    \/ k1[1] = k2[1] /\ StrLess(k1[2], k2[2])

bool(b) == IF b THEN 1 ELSE 0

\* Variant of sorted that sorts set(seq): a record that occurs twice is kept
\* once.
sorted_distinct(seq, keys) ==
    LET idx == {i \in 1..Len(seq) : \A j \in 1..(i - 1) : seq[j] # seq[i]}
        rank(i) == 1 + Cardinality({j \in idx :
                        \/ KeyLess(keys[j], keys[i])
                        \/ keys[j] = keys[i] /\ j < i})
    IN  [p \in 1..Cardinality(idx) |-> seq[CHOOSE i \in idx : rank(i) = p]]

\* Variant of sorted that makes a single pass of adjacent exchanges.
RECURSIVE bubble_pass(_, _, _)
bubble_pass(seq, keys, i) ==
    IF i >= Len(seq) THEN seq
    ELSE IF KeyLess(keys[i + 1], keys[i])
    THEN bubble_pass([seq EXCEPT ![i] = seq[i + 1], ![i + 1] = seq[i]],
                     [keys EXCEPT ![i] = keys[i + 1], ![i + 1] = keys[i]],
                     i + 1)
    ELSE bubble_pass(seq, keys, i + 1)

sorted_one_pass(seq, keys) == bubble_pass(seq, keys, 1)

\* sorted(seq, key = ...) with keys[i] the key of seq[i]: a stable sort, so
\* an element goes after every element with a smaller key and after the
\* elements with an equal key that stood before it.
sorted(seq, keys) ==
    LET n == Len(seq)
        rank(i) == 1 + Cardinality({j \in 1..n :
                        \/ KeyLess(keys[j], keys[i])
                        \/ keys[j] = keys[i] /\ j < i})
    IN  [p \in 1..n |-> seq[CHOOSE i \in 1..n : rank(i) = p]]

\* Variant of _from_first_sort whose key lacks the negation.
from_first_sort_unnegated(imports) ==
    sorted(imports, [i \in 1..Len(imports) |->
        <<bool(imports[i].is_from_import), imports[i].original_line>>])

from_first_sort(imports) ==
    sorted(imports, [i \in 1..Len(imports) |->
        <<bool(~imports[i].is_from_import), imports[i].original_line>>])

\* Variant of _import_first_sort whose key is the line alone.
import_first_sort_ungrouped(imports) ==
    sorted(imports, [i \in 1..Len(imports) |->
        <<0, imports[i].original_line>>])

import_first_sort(imports) ==
    sorted(imports, [i \in 1..Len(imports) |->
        <<bool(imports[i].is_from_import), imports[i].original_line>>])

alphabetical_sort(imports) ==
    sorted(imports, [i \in 1..Len(imports) |->
        <<0, imports[i].original_line>>])

type_order == [t \in ImportType |->
    CASE t = "SYSTEM" -> 0 [] t = "THIRD_PARTY" -> 1 [] t = "LOCAL" -> 2]

structural_sort(imports) ==
    sorted(imports, [i \in 1..Len(imports) |->
        <<type_order[imports[i].import_type], imports[i].original_line>>])

sort_imports(imports, sorting_type) ==
    CASE sorting_type = "FROM_FIRST"   -> from_first_sort(imports)
      [] sorting_type = "IMPORT_FIRST" -> import_first_sort(imports)
      [] sorting_type = "ALPHABETICAL" -> alphabetical_sort(imports)
      [] sorting_type = "STRUCTURAL"   -> structural_sort(imports)

-----------------------------------------------------------------------------
(* config.py *)

Files == {"pkg/a.py", "pkg/notes.txt", "pkg/b.py"}

Directories == {"pkg"}

\* The order os.walk yields the files of pkg in.
Listing == <<"pkg/a.py", "pkg/notes.txt", "pkg/b.py">>

exists(path) == path \in Files \cup Directories

\* Config.validate_path: a path that is given must exist. "" stands for None.
validate_path(path) == path = "" \/ exists(path)

\* Config.validate_file_extension
validate_file_extension(file) == file = "" \/ endswith(file, ".py")

\* Config(...) raises no ValidationError.
config_valid(c) ==
    /\ validate_path(c.directory)
    /\ validate_path(c.file)
    /\ validate_file_extension(c.file)

-----------------------------------------------------------------------------
(* main.py *)

ErrorRecord(path) == [level |-> "ERROR", text |-> "Error processing " \o path]

InfoRecord(text) == [level |-> "INFO", text |-> text]

\* stripped_line.startswith(("import ", "from "))
is_import_line(line) ==
    LET stripped_line == strip(line) IN
    startswith(stripped_line, "import ") \/ startswith(stripped_line, "from ")

is_not_import_line(line) == ~is_import_line(line)

\* imp[:-1] for every line of a list
without_last_char(lines) ==
    [i \in 1..Len(lines) |-> SubSeq(lines[i], 1, Len(lines[i]) - 1)]

\* The records of the verbose branch.
verbose_records(path, import_statements, sorted_import_lines) ==
    <<InfoRecord("Processing file: " \o path), InfoRecord("Original imports:")>>
    \o [i \in 1..Len(import_statements) |->
           InfoRecord(without_last_char(import_statements)[i])]
    \o <<InfoRecord("Sorted imports:")>>
    \o [i \in 1..Len(sorted_import_lines) |->
           InfoRecord(without_last_char(sorted_import_lines)[i])]

\* ImportSorter._process_single_file. Every exception raised inside it is
\* caught by its own handler and logged, so it always returns normally.
process_single_file(file_path) ==
    LET content            == fs[file_path]
        readable           == perm[file_path] # "none"
        import_statements  == SelectSeq(content, is_import_line)
        non_import_content == SelectSeq(content, is_not_import_line)
        parsed             == parse_imports(readable, content)
        sorted_            == sort_imports(parsed.imports, config.sorting_type)
        sorted_import_lines ==
            [i \in 1..Len(sorted_) |-> sorted_[i].original_line \o "\n"]
        new_content        == sorted_import_lines \o non_import_content
        said == IF config.verbose
                THEN verbose_records(file_path, import_statements,
                                     sorted_import_lines)
                ELSE <<>>
    IN  IF ~readable \/ ~parsed.ok
        THEN /\ log' = Append(log, ErrorRecord(file_path))
             /\ status' = [status EXCEPT ![file_path] = "error"]
             /\ UNCHANGED <<fs, parsed_imports, sorted_imports>>
        ELSE /\ parsed_imports' = parsed.imports
             /\ sorted_imports' = sorted_
             /\ IF config.dry_run
                THEN /\ log' = log \o said
                     /\ status' = [status EXCEPT ![file_path] = "ok"]
                     /\ UNCHANGED fs
                ELSE IF perm[file_path] # "rw"
                THEN /\ log' = Append(log \o said, ErrorRecord(file_path))
                     /\ status' = [status EXCEPT ![file_path] = "error"]
                     /\ UNCHANGED fs
                ELSE /\ fs' = [fs EXCEPT ![file_path] = new_content]
                     /\ log' = Append(log \o said, InfoRecord(
                            "Successfully sorted imports in " \o file_path))
                     /\ status' = [status EXCEPT ![file_path] = "ok"]

\* ImportSorter.run, first half: _parse_arguments builds the Config; a
\* ValidationError reaches the handler of run, which logs and exits with 1.
ParseArguments ==
    /\ pc = "start"
    /\ IF config_valid(config)
       THEN /\ pc' = "parsed"
            /\ UNCHANGED <<log, exit_code>>
       ELSE /\ pc' = "done"
            /\ log' = Append(log, [level |-> "ERROR",
                                   text |-> "Error during import sorting"])
            /\ exit_code' = 1
    /\ UNCHANGED <<fs, fs0, perm, config, todo, status, parsed_imports,
                   sorted_imports>>

\* _process_files with a file target: the file is processed and run returns.
ProcessFile ==
    /\ pc = "parsed"
    /\ config.file # ""
    /\ process_single_file(config.file)
    /\ pc' = "done"
    /\ UNCHANGED <<fs0, perm, config, todo, exit_code>>

\* _process_files with a directory target: _process_directory starts the walk.
StartWalk ==
    /\ pc = "parsed"
    /\ config.file = ""
    /\ config.directory # ""
    /\ pc' = "walk"
    /\ todo' = Listing
    /\ UNCHANGED <<fs, fs0, perm, config, log, exit_code, status,
                   parsed_imports, sorted_imports>>

\* _process_files with no target: the ValueError reaches the handler of run.
NoTarget ==
    /\ pc = "parsed"
    /\ config.file = ""
    /\ config.directory = ""
    /\ pc' = "done"
    /\ log' = Append(log, [level |-> "ERROR",
                           text |-> "Error during import sorting"])
    /\ exit_code' = 1
    /\ UNCHANGED <<fs, fs0, perm, config, todo, status, parsed_imports,
                   sorted_imports>>

\* Variant of the iteration that leaves the loop when a file fails.
WalkPythonFileAborting ==
    /\ pc = "walk"
    /\ todo # <<>>
    /\ endswith(Head(todo), ".py")
    /\ process_single_file(Head(todo))
    /\ todo' = IF status'[Head(todo)] = "error" THEN <<>> ELSE Tail(todo)
    /\ UNCHANGED <<fs0, perm, config, pc, exit_code>>

\* One iteration of the loop of _process_directory over a .py file.
WalkPythonFile ==
    /\ pc = "walk"
    /\ todo # <<>>
    /\ endswith(Head(todo), ".py")
    /\ process_single_file(Head(todo))
    /\ todo' = Tail(todo)
    /\ UNCHANGED <<fs0, perm, config, pc, exit_code>>

\* One iteration over a file without the .py suffix.
WalkOtherFile ==
    /\ pc = "walk"
    /\ todo # <<>>
    /\ ~endswith(Head(todo), ".py")
    /\ todo' = Tail(todo)
    /\ UNCHANGED <<fs, fs0, perm, config, pc, log, exit_code, status,
                   parsed_imports, sorted_imports>>

\* The walk is over and run returns.
WalkDone ==
    /\ pc = "walk"
    /\ todo = <<>>
    /\ pc' = "done"
    /\ UNCHANGED <<fs, fs0, perm, config, todo, log, exit_code, status,
                   parsed_imports, sorted_imports>>

(* The command lines and file trees the driver is started on. *)

LineTexts == {"import sys\n", "from .utils import helper\n",
              "from utils import helper\n", "x = 1\n", "\"\"\"\n"}

DirLineTexts == {"import sys\n", "x = 1\n", "\"\"\"\n"}

SeqsUpTo(S, n) == UNION {[1..k -> S] : k \in 0..n}

Targets == {[file |-> "pkg/a.py", directory |-> ""],
            [file |-> "", directory |-> "pkg"],
            [file |-> "pkg/a.py", directory |-> "pkg"],
            [file |-> "pkg/notes.txt", directory |-> ""],
            [file |-> "", directory |-> "missing"],
            [file |-> "", directory |-> ""]}

Init ==
    /\ \E t \in Targets, s \in SortingType, d \in BOOLEAN, v \in BOOLEAN :
          config = [file |-> t.file, directory |-> t.directory,
                    sorting_type |-> s, dry_run |-> d, verbose |-> v]
    /\ IF config.file = "pkg/a.py"
       THEN \E a \in SeqsUpTo(LineTexts, MaxLines) :
               fs = [f \in Files |-> IF f = "pkg/a.py" THEN a ELSE <<>>]
       ELSE IF config.file = "" /\ config.directory = "pkg"
       THEN \E a, b \in SeqsUpTo(DirLineTexts, MaxDirLines) :
               fs = [f \in Files |-> IF f = "pkg/a.py" THEN a
                                     ELSE IF f = "pkg/b.py" THEN b
                                     ELSE <<"import this\n">>]
       ELSE fs = [f \in Files |-> <<>>]
    /\ fs0 = fs
    /\ IF config_valid(config) /\ (config.file # "" \/ config.directory # "")
       THEN \E pa, pb \in {"rw", "r", "none"} :
               /\ config.file # "" => pb = "rw"
               /\ perm = [f \in Files |-> IF f = "pkg/a.py" THEN pa
                                          ELSE IF f = "pkg/b.py" THEN pb
                                          ELSE "rw"]
       ELSE perm = [f \in Files |-> "rw"]
    /\ pc = "start"
    /\ todo = <<>>
    /\ log = <<>>
    /\ exit_code = 0
    /\ status = [f \in Files |-> "untouched"]
    /\ parsed_imports = <<>>
    /\ sorted_imports = <<>>

Next ==
    \/ ParseArguments
    \/ ProcessFile
    \/ StartWalk
    \/ NoTarget
    \/ WalkPythonFile
    \/ WalkOtherFile
    \/ WalkDone

Spec == Init /\ [][Next]_vars

-----------------------------------------------------------------------------
(* The Parser's record constructors and the Sorter on their own: records    *)
(* are built by the two constructors, sorted under a strategy, and the      *)
(* result is sorted again under the same strategy.                          *)

PlainModules == {"sys", "requests", "mypkg.sub"}

FromModules == {".utils", "os"}

Names == {"helper", "x"}

ExtractImport(module) ==
    /\ pc = "extract"
    /\ Len(parsed_imports) < MaxRecords
    /\ parsed_imports' = Append(parsed_imports, create_import_statement(module))
    /\ UNCHANGED <<fs, fs0, perm, config, pc, todo, log, exit_code, status,
                   sorted_imports>>

ExtractFromImport(module, specific_import) ==
    /\ pc = "extract"
    /\ Len(parsed_imports) < MaxRecords
    /\ parsed_imports' = Append(parsed_imports,
           create_from_import_statement(module, specific_import))
    /\ UNCHANGED <<fs, fs0, perm, config, pc, todo, log, exit_code, status,
                   sorted_imports>>

SortImports(sorting_type) ==
    /\ pc = "extract"
    /\ config' = [config EXCEPT !.sorting_type = sorting_type]
    /\ sorted_imports' = sort_imports(parsed_imports, sorting_type)
    /\ pc' = "sorted"
    /\ UNCHANGED <<fs, fs0, perm, todo, log, exit_code, status, parsed_imports>>

SortAgain ==
    /\ pc = "sorted"
    /\ parsed_imports' = sorted_imports
    /\ sorted_imports' = sort_imports(sorted_imports, config.sorting_type)
    /\ pc' = "sorted_again"
    /\ UNCHANGED <<fs, fs0, perm, config, todo, log, exit_code, status>>

InitOrder ==
    /\ config = [file |-> "", directory |-> "", sorting_type |-> "STRUCTURAL",
                 dry_run |-> FALSE, verbose |-> FALSE]
    /\ fs = [f \in Files |-> <<>>]
    /\ fs0 = fs
    /\ perm = [f \in Files |-> "rw"]
    /\ pc = "extract"
    /\ todo = <<>>
    /\ log = <<>>
    /\ exit_code = 0
    /\ status = [f \in Files |-> "untouched"]
    /\ parsed_imports = <<>>
    /\ sorted_imports = <<>>

NextOrder ==
    \/ \E module \in PlainModules : ExtractImport(module)
    \/ \E module \in FromModules, name \in Names :
          ExtractFromImport(module, name)
    \/ \E sorting_type \in SortingType : SortImports(sorting_type)
    \/ SortAgain

SpecOrder == InitOrder /\ [][NextOrder]_vars

-----------------------------------------------------------------------------
(* Properties *)

Range(seq) == {seq[i] : i \in 1..Len(seq)}

Count(seq, x) == Cardinality({i \in 1..Len(seq) : seq[i] = x})

IsSelective(r) == r.is_from_import

IsPlain(r) == ~r.is_from_import

\* The first dot-separated segment of a module path.
FirstSegment(module) ==
    IF contains(module, ".") THEN SubSeq(module, 1, find(module, ".") - 1)
    ELSE module

\* C1: a record is classified SYSTEM only when the first dot-separated
\* segment of its module path is, in full, a name of the standard-library
\* list; a path such as "requests" or "osprey" is never SYSTEM.
C1_StandardOnlyOnFullSegment ==
    \A i \in 1..Len(parsed_imports) :
        FirstSegment(parsed_imports[i].module) \notin standard_libs
            => parsed_imports[i].import_type # "SYSTEM"

\* C2: the records plain sys, plain requests and selective .utils importing
\* helper, classified by the Classifier, come out of the STRUCTURAL strategy
\* in the order sys, requests, .utils with the categories SYSTEM,
\* THIRD_PARTY, LOCAL.
C2_StructuralScenario ==
    (/\ pc = "sorted"
     /\ config.sorting_type = "STRUCTURAL"
     /\ parsed_imports = <<create_import_statement("sys"),
                           create_import_statement("requests"),
                           create_from_import_statement(".utils", "helper")>>)
    => /\ [i \in 1..3 |-> sorted_imports[i].module]
              = <<"sys", "requests", ".utils">>
       /\ [i \in 1..3 |-> sorted_imports[i].import_type]
              = <<"SYSTEM", "THIRD_PARTY", "LOCAL">>

\* C3: a run on a single target file whose processing failed does not end
\* with exit status 0.
C3_SingleFileFailureExitsNonZero ==
    (/\ pc = "done"
     /\ config.file # ""
     /\ status[config.file] = "error")
    => exit_code # 0

\* The lines of a source that hold no import statement of its syntax tree.
ImportLinenos(lines) ==
    {n.lineno : n \in {m \in Range(ast_parse(lines).body) :
                          m.type \in {"Import", "ImportFrom"}}}

NonImportLines(lines) ==
    LET keep == {i \in 1..Len(lines) : i \notin ImportLinenos(lines)}
        nth(p) == CHOOSE i \in keep : Cardinality({j \in keep : j < i}) = p - 1
    IN  [p \in 1..Cardinality(keep) |-> lines[nth(p)]]

\* C4: a file that was rewritten holds one rendered line per import
\* statement of the source, in the order of the policy, followed by every
\* line of the source that is not an import statement, verbatim and in the
\* original order; the number of lines is the one of the source.
C4_RoundTripRendering ==
    \A f \in Files :
        (status[f] = "ok" /\ ~config.dry_run) =>
            LET src   == fs0[f]
                recs  == sort_imports(walk_imports(ast_parse(src).body),
                                      config.sorting_type)
                N     == Cardinality(ImportLinenos(src))
            IN  /\ Len(fs[f]) = Len(src)
                /\ Len(recs) = N
                /\ SubSeq(fs[f], 1, N)
                       = [i \in 1..N |-> recs[i].original_line \o "\n"]
                /\ SubSeq(fs[f], N + 1, Len(fs[f])) = NonImportLines(src)

\* What each strategy sorts on first.
CategoryRank(r) ==
    CASE r.import_type = "SYSTEM" -> 0
      [] r.import_type = "THIRD_PARTY" -> 1
      [] r.import_type = "LOCAL" -> 2

Primary(policy, r) ==
    CASE policy = "FROM_FIRST"   -> IF IsSelective(r) THEN 0 ELSE 1
      [] policy = "IMPORT_FIRST" -> IF IsPlain(r) THEN 0 ELSE 1
      [] policy = "ALPHABETICAL" -> 0
      [] policy = "STRUCTURAL"   -> CategoryRank(r)

\* C5: the output of every strategy is sorted by its key: adjacent records
\* a, b have primary(a) <= primary(b) and, on equal primary keys,
\* a.original_line <= b.original_line.
C5_OutputSortedByKey ==
    pc \in {"sorted", "sorted_again"} =>
        \A i \in 1..(Len(sorted_imports) - 1) :
            LET a == sorted_imports[i]
                b == sorted_imports[i + 1]
                P == config.sorting_type
            IN  /\ Primary(P, a) <= Primary(P, b)
                /\ Primary(P, a) = Primary(P, b)
                       => StrLeq(a.original_line, b.original_line)

\* Three records came out in another order than they went in, with a change
\* of primary key inside the output.
C5_Witness ==
    /\ pc = "sorted"
    /\ Len(sorted_imports) = 3
    /\ sorted_imports # parsed_imports
    /\ \E i \in 1..2 :
          Primary(config.sorting_type, sorted_imports[i])
              < Primary(config.sorting_type, sorted_imports[i + 1])

\* C6: the output of every strategy is a permutation of its input: same
\* length, every record as often as in the input, empty for the empty input.
C6_OutputIsPermutation ==
    pc \in {"sorted", "sorted_again"} =>
        /\ Len(sorted_imports) = Len(parsed_imports)
        /\ \A r \in Range(parsed_imports) \cup Range(sorted_imports) :
              Count(sorted_imports, r) = Count(parsed_imports, r)
        /\ parsed_imports = <<>> => sorted_imports = <<>>

\* An input holding the same record twice, apart, was sorted.
C6_Witness ==
    /\ pc = "sorted"
    /\ Len(parsed_imports) = 3
    /\ parsed_imports[1] = parsed_imports[3]
    /\ parsed_imports[1] # parsed_imports[2]

\* C7: sorting the output of a strategy again under the same strategy gives
\* the same sequence, element by element.
C7_Idempotent ==
    pc = "sorted_again" => sorted_imports = parsed_imports

\* Three different records that stood in another order were sorted twice.
C7_Witness ==
    /\ pc = "sorted_again"
    /\ Len(sorted_imports) = 3
    /\ Cardinality(Range(sorted_imports)) = 3
    /\ Range(sorted_imports) \cap {create_import_statement("sys")} # {}
    /\ \E r \in Range(sorted_imports) : IsSelective(r)

\* C8: FROM_FIRST and IMPORT_FIRST give the same selective group and the
\* same plain group; FROM_FIRST puts the selective group first, IMPORT_FIRST
\* the plain group.
C8_FromFirstImportFirstSwap ==
    pc = "sorted" =>
        LET F == from_first_sort(parsed_imports)
            I == import_first_sort(parsed_imports)
        IN  /\ config.sorting_type = "FROM_FIRST" =>
                  sorted_imports = SelectSeq(I, IsSelective) \o SelectSeq(I, IsPlain)
            /\ config.sorting_type = "IMPORT_FIRST" =>
                  sorted_imports = SelectSeq(F, IsPlain) \o SelectSeq(F, IsSelective)
            /\ SelectSeq(F, IsSelective) = SelectSeq(I, IsSelective)
            /\ SelectSeq(F, IsPlain) = SelectSeq(I, IsPlain)
            /\ F = SelectSeq(F, IsSelective) \o SelectSeq(F, IsPlain)
            /\ I = SelectSeq(I, IsPlain) \o SelectSeq(I, IsSelective)

\* IMPORT_FIRST sorted an input with two selective records and a plain one.
C8_Witness ==
    /\ pc = "sorted"
    /\ config.sorting_type = "IMPORT_FIRST"
    /\ Len(SelectSeq(parsed_imports, IsSelective)) = 2
    /\ Len(SelectSeq(parsed_imports, IsPlain)) = 1
    /\ sorted_imports # parsed_imports

\* Processing the file fails: it cannot be read, does not parse, or is to be
\* written and cannot be.
Fails(f) ==
    \/ perm[f] = "none"
    \/ ~ast_parse(fs0[f]).ok
    \/ ~config.dry_run /\ perm[f] # "rw"

ImportNodes(lines) ==
    LET IsImport(n) == n.type \in {"Import", "ImportFrom"}
    IN  SelectSeq(ast_parse(lines).body, IsImport)

RECURSIVE Repeat(_, _)
Repeat(s, k) == IF k = 0 THEN "" ELSE s \o Repeat(s, k - 1)

\* C10: the record of a selective import of relative level k >= 1 carries
\* the k leading dots in module and in original_line, so two statements that
\* differ only in their level never give the same record.
C10_RelativeLevelKept ==
    (/\ pc = "done"
     /\ config.file # ""
     /\ status[config.file] = "ok")
    => LET nodes == ImportNodes(fs0[config.file]) IN
       /\ \A i \in 1..Len(nodes) :
             nodes[i].level >= 1 =>
                /\ startswith(parsed_imports[i].module,
                              Repeat(".", nodes[i].level))
                /\ startswith(parsed_imports[i].original_line,
                              "from " \o Repeat(".", nodes[i].level))
       /\ \A i, j \in 1..Len(nodes) :
             nodes[i].level # nodes[j].level =>
                <<parsed_imports[i].module, parsed_imports[i].original_line>>
                    # <<parsed_imports[j].module, parsed_imports[j].original_line>>

=============================================================================
